---- MODULE Spec2Model ----
(***************************************************************************)
(* State-machine model of server/websocket.ts (connection upgrade broker,  *)
(* message router, session registry, port allocation, idle reaper) and of  *)
(* the worker process (worker.js).                                         *)
(***************************************************************************)
EXTENDS Integers, Sequences, FiniteSets, TLC

\* ------------------------------------------------------------------ bounds
NumSockets == 2
MaxClock == 1
MaxFrames == 2
MaxEvents == 4
NumInstances == 2
MaxServers == 2
MaxDeviceConns == 2
MaxWorkers == 2
MaxIntervals == 7
MaxIsoEvents == 3
MaxServerEvents == 7
MaxWorkerEvents == 5
MaxTimedEvents == 5
MaxWorkerConns == 2
MaxIsoFrames == 2

\* ------------------------------------------------------- program constants
PolicyViolation == 1008
InitialPort == 3000
IdleThreshold == 30 * 60 * 1000
SweepInterval == 5 * 60 * 1000

\* ------------------------------------------------------------------ inputs
Instances == 1..NumInstances
Devices == {"devA", "devB"}
BasePorts == {InitialPort, InitialPort + 1}
Sockets == 1..NumSockets
Keys == {"keyA", "keyB"}
NoKey == "absent"
Ips == {"10.0.0.1"}
Contents == {"hello"}
Channels == {"alerts"}
Messages == {"m1", "m2"}
Undefined == "undefined"
NoSid == <<>>
NoDevice == "none"
NoSignal == "none"

VARIABLES
  clock,                   \* Date.now(), in ms
  sockState,               \* per socket: readyState of the server-side ws
  closeCode,               \* per socket: code the server passed to ws.close, if any
  connOf,                  \* per socket: closure variables ip, deviceId, sessionId
  sent,                    \* per socket: frames written by ws.send, in order
  historyFetch,            \* per socket: state of the getChatHistory promise
  activeIsolatedSessions,  \* session registry
  saved,                   \* calls of saveChatMessage, in order
  received,                \* number of inbound frames delivered so far
  lastMessage,             \* the frame last handed to a message handler, and its socket
  errorLog,                \* number of console.error calls of the message handler
  pendingSaves,            \* saveChatMessage promises not yet settled
  crashed,                 \* the node process has terminated
  portCounter,             \* module-level port counter
  instanceCounter,         \* the portCounter of each createDeviceIsolatedServer call, in order
  servers,                 \* isolated servers made by createForDevice, in order
  deviceConns,             \* connections accepted by the isolated servers, in order
  deviceServers,           \* deviceId -> { httpServer, wss, ws }
  activeConnections,       \* DeviceConnection entries, in Map insertion order
  workers,                 \* forked worker processes, in order
  activeProcesses,         \* deviceId -> IsolatedProcess
  workerConns,             \* connections accepted by the workers, in order
  timerDue                 \* the setInterval callback is due

wsVars == <<sockState, closeCode, connOf, sent, historyFetch,
            activeIsolatedSessions, saved, received, lastMessage, errorLog,
            pendingSaves>>

isoVars == <<portCounter, instanceCounter, servers, deviceConns, deviceServers,
             activeConnections, workers, activeProcesses, workerConns,
             timerDue>>

vars == <<clock, crashed, wsVars, isoVars>>

\* ------------------------------------------------------------- conversions
\* `${deviceId}-${Date.now()}`
SessionIdOf(deviceId, now) == <<deviceId, now>>

\* request.headers['sec-websocket-key'] || `${ip}-${Date.now()}`
DeviceIdOf(key, ip, now) == IF key # NoKey THEN key ELSE <<ip, now>>

\* new Date().toISOString()
ToISOString(now) == <<"iso", now>>

\* ws handleUpgrade: the handshake is aborted without a Sec-WebSocket-Key
HandshakeCompletes(key) == key # NoKey

AllSessionIds == {SessionIdOf(k, t) : k \in Keys, t \in 0..MaxClock}

\* ---------------------------------------------------------- inbound frames
\* A raw frame is text: not JSON at all, the JSON literal null, or an object.
ObjectFrames ==
  [kind : {"object"}, type : {"chat"}, sessionId : {NoSid} \cup AllSessionIds,
   content : Contents, channel : {Undefined}]
  \cup
  [kind : {"object"}, type : {"subscribe", "ping"},
   sessionId : {NoSid} \cup AllSessionIds,
   content : {Undefined}, channel : Channels]

GarbageFrame == [kind |-> "garbage", type |-> Undefined, sessionId |-> NoSid,
                 content |-> Undefined, channel |-> Undefined]
NullFrame == [kind |-> "null", type |-> Undefined, sessionId |-> NoSid,
              content |-> Undefined, channel |-> Undefined]

RawFrames == ObjectFrames \cup {GarbageFrame, NullFrame}

\* JSON.parse(message.toString()): throws SyntaxError on text that is not JSON
JSONParse(raw) ==
  CASE raw.kind = "garbage" -> [ok |-> FALSE, isNull |-> FALSE, value |-> raw]
    [] raw.kind = "null"    -> [ok |-> TRUE, isNull |-> TRUE, value |-> raw]
    [] OTHER                -> [ok |-> TRUE, isNull |-> FALSE,
                                value |-> [type |-> raw.type,
                                           sessionId |-> raw.sessionId,
                                           content |-> raw.content,
                                           channel |-> raw.channel]]

\* ---------------------------------------------------------- outbound frames
SessionInitFrame(sessionId, deviceId, ip) ==
  [type |-> "session_init", sessionId |-> sessionId, deviceId |-> deviceId,
   ipAddress |-> ip]

ConnectionFrame(deviceId) ==
  [type |-> "connection", deviceId |-> deviceId,
   message |-> "Connected to Ecosense WebSocket Server"]

HistoryFrame(history) == [type |-> "history", messages |-> history]

\* variant: the echo is rebuilt without the fields of the inbound frame
EchoFrameNoContent(parsed, sessionId, now) ==
  [type |-> parsed.type, sessionId |-> sessionId, content |-> Undefined,
   channel |-> parsed.channel, timestamp |-> ToISOString(now)]

\* variant: the echo keeps the session id the inbound frame carried
EchoFrameUnstamped(parsed, sessionId, now) ==
  [type |-> parsed.type, sessionId |-> parsed.sessionId,
   content |-> parsed.content, channel |-> parsed.channel,
   timestamp |-> ToISOString(now)]

\* { ...parsed, sessionId, timestamp: new Date().toISOString() }
EchoFrame(parsed, sessionId, now) ==
  [type |-> parsed.type, sessionId |-> sessionId, content |-> parsed.content,
   channel |-> parsed.channel, timestamp |-> ToISOString(now)]

\* variant: the confirmation omits the channel
SubscribedFrameNoChannel(parsed) == [type |-> "subscribed", channel |-> Undefined]

SubscribedFrame(parsed) == [type |-> "subscribed", channel |-> parsed.channel]

\* variant: the welcome frame is sent before session_init
InitFramesSwapped(sessionId, deviceId, ip) ==
  <<ConnectionFrame(deviceId), SessionInitFrame(sessionId, deviceId, ip)>>

\* the two frames the connection handler sends synchronously, in order
InitFrames(sessionId, deviceId, ip) ==
  <<SessionInitFrame(sessionId, deviceId, ip), ConnectionFrame(deviceId)>>

\* ------------------------------------------------------------ ws library
\* variant: the frame is written ahead of the frames already sent
WsSendFirst(s, frame) ==
  IF sockState[s] = "open" THEN <<frame>> \o sent[s] ELSE sent[s]

\* WebSocket.send: a frame is written only while readyState is OPEN
WsSend(s, frame) ==
  IF sockState[s] = "open" THEN Append(sent[s], frame) ELSE sent[s]

\* WebSocket.close(code): OPEN -> CLOSING with the code; no-op otherwise
WsCloseState(s) == IF sockState[s] = "open" THEN "closing" ELSE sockState[s]
WsCloseCode(s, code) == IF sockState[s] = "open" THEN code ELSE closeCode[s]

\* --------------------------------------------------------------- Map
\* Map.prototype.set: an existing key is overwritten
MapSet(map, key, value) == (key :> value) @@ map
\* variant: delete leaves the map as it is
MapDeleteNothing(map, key) == map
\* Map.prototype.delete: no-op when the key is absent
MapDelete(map, key) == [k \in DOMAIN map \ {key} |-> map[k]]
EmptyMap == [k \in {} |-> 0]

\* ----------------------------------------------------------- history store
\* getChatHistory(deviceId): the contents saved for the device, in order
RECURSIVE HistoryOf(_, _)
HistoryOf(calls, deviceId) ==
  IF calls = <<>> THEN <<>>
  ELSE LET rest == HistoryOf(Tail(calls), deviceId) IN
       IF Head(calls)[1] = deviceId THEN <<Head(calls)[2]>> \o rest ELSE rest

\* -------------------------------------------------------------------- Init
NoConn == [ip |-> Undefined, deviceId |-> NoDevice, sessionId |-> NoSid]

Init ==
  /\ clock = 0
  /\ sockState = [s \in Sockets |-> "none"]
  /\ closeCode = [s \in Sockets |-> 0]
  /\ connOf = [s \in Sockets |-> NoConn]
  /\ sent = [s \in Sockets |-> <<>>]
  /\ historyFetch = [s \in Sockets |-> "none"]
  /\ activeIsolatedSessions = EmptyMap
  /\ saved = <<>>
  /\ received = 0
  /\ lastMessage = <<>>
  /\ errorLog = 0
  /\ pendingSaves = 0
  /\ crashed = FALSE
  /\ portCounter = InitialPort
  /\ instanceCounter = <<>>
  /\ servers = <<>>
  /\ deviceConns = <<>>
  /\ deviceServers = EmptyMap
  /\ activeConnections = <<>>
  /\ workers = <<>>
  /\ activeProcesses = EmptyMap
  /\ workerConns = <<>>
  /\ timerDue = FALSE

\* number of connection events handled so far
Events ==
  received + clock
  + Cardinality({s \in Sockets : sockState[s] # "none"})
  + Cardinality({s \in Sockets : historyFetch[s] \notin {"none", "pending"}})
  + Cardinality({s \in Sockets : sockState[s] = "closed" /\ ~crashed})
Budget == ~crashed /\ Events < MaxEvents

\* ------------------------------------------------------------------ actions
\* Date.now() advances by a millisecond
Tick ==
  /\ Budget
  /\ clock < MaxClock
  /\ clock' = clock + 1
  /\ UNCHANGED isoVars
  /\ UNCHANGED <<sockState, closeCode, connOf, sent, historyFetch,
                 activeIsolatedSessions, saved, received, lastMessage, errorLog,
                 pendingSaves, crashed>>

\* sockets are numbered in the order their upgrade requests arrive
NextToArrive(s) == \A t \in Sockets : t < s => sockState[t] # "none"

\* server.on('upgrade'): handleUpgrade and the isolated server's connection handler
Upgrade(s, key, ip) ==
  /\ Budget
  /\ sockState[s] = "none"
  /\ NextToArrive(s)
  /\ LET deviceId == DeviceIdOf(key, ip, clock)
         sessionId == SessionIdOf(deviceId, clock)
     IN IF HandshakeCompletes(key)
        THEN /\ sockState' = [sockState EXCEPT ![s] = "open"]
             /\ connOf' = [connOf EXCEPT ![s] =
                  [ip |-> ip, deviceId |-> deviceId, sessionId |-> sessionId]]
             /\ activeIsolatedSessions' =
                  MapSet(activeIsolatedSessions, sessionId,
                              [ws |-> s, ip |-> ip, deviceId |-> deviceId])
             /\ sent' = [sent EXCEPT ![s] = InitFrames(sessionId, deviceId, ip)]
             /\ historyFetch' = [historyFetch EXCEPT ![s] = "pending"]
        ELSE /\ sockState' = [sockState EXCEPT ![s] = "refused"]
             /\ UNCHANGED <<connOf, activeIsolatedSessions, sent, historyFetch>>
  /\ UNCHANGED isoVars
  /\ UNCHANGED <<clock, closeCode, saved, received, lastMessage, errorLog,
                 pendingSaves, crashed>>

\* getChatHistory(deviceId).then(history => ws.send(history frame))
HistoryResolved(s) ==
  /\ Budget
  /\ historyFetch[s] = "pending"
  /\ sent' = [sent EXCEPT ![s] =
       WsSend(s, HistoryFrame(HistoryOf(saved, connOf[s].deviceId)))]
  /\ historyFetch' = [historyFetch EXCEPT ![s] =
       IF sockState[s] = "open" THEN "sent" ELSE "dropped"]
  /\ UNCHANGED isoVars
  /\ UNCHANGED <<clock, sockState, closeCode, connOf, activeIsolatedSessions,
                 saved, received, lastMessage, errorLog, pendingSaves, crashed>>

\* process termination: every connection still up is torn down
CrashSockState == [s \in Sockets |->
  IF sockState[s] \in {"open", "closing"} THEN "closed" ELSE sockState[s]]

\* an uncaught exception ends the process
ProcessDies ==
  /\ crashed' = TRUE
  /\ sockState' = CrashSockState

\* A promise rejects with no handler attached. Node either prints a warning
\* and goes on, or raises an uncaught exception that ends the process.
UnhandledRejection(ends) ==
  IF ends
  THEN ProcessDies
  ELSE UNCHANGED <<crashed, sockState>>

\* getChatHistory(deviceId) rejects: the promise chain has no catch
HistoryRejected(s, ends) ==
  /\ Budget
  /\ historyFetch[s] = "pending"
  /\ historyFetch' = [historyFetch EXCEPT ![s] = "failed"]
  /\ UnhandledRejection(ends)
  /\ UNCHANGED isoVars
  /\ UNCHANGED <<clock, closeCode, connOf, sent, activeIsolatedSessions, saved,
                 received, lastMessage, errorLog, pendingSaves>>

\* if (!parsed.sessionId || !activeIsolatedSessions.has(parsed.sessionId))
SessionInvalid(parsed) ==
  \/ parsed.sessionId = NoSid
  \/ parsed.sessionId \notin DOMAIN activeIsolatedSessions

\* variant: the catch block also closes the socket
CatchErrorClosing(s) ==
  /\ errorLog' = errorLog + 1
  /\ sockState' = [sockState EXCEPT ![s] = WsCloseState(s)]
  /\ closeCode' = [closeCode EXCEPT ![s] = WsCloseCode(s, PolicyViolation)]

\* catch (error) { console.error('Isolated session error:', error) }
CatchError(s) ==
  /\ errorLog' = errorLog + 1
  /\ UNCHANGED <<sockState, closeCode>>

\* variant: the echo is broadcast to every open socket
EchoSocketsBroadcast(s) == {t \in Sockets : sockState[t] = "open"}

\* the chat echo goes to the socket of the handler's closure
EchoSockets(s) == {s}

\* saveChatMessage(deviceId, parsed.content) returns a promise or throws
SaveOutcomes == {"promise", "throws"}

\* ws.on('message'): the whole handler, try/catch included
OnMessage(s, raw) ==
  /\ Budget
  /\ sockState[s] \in {"open", "closing"}
  /\ received < MaxFrames
  /\ received' = received + 1
  /\ lastMessage' = <<s, raw>>
  /\ LET result == JSONParse(raw)
         parsed == result.value
     IN CASE ~result.ok \/ result.isNull ->
               \* SyntaxError, or TypeError on null.sessionId
               /\ CatchError(s)
               /\ UNCHANGED <<sent, saved, pendingSaves>>
          [] result.ok /\ ~result.isNull /\ SessionInvalid(parsed) ->
               /\ sockState' = [sockState EXCEPT ![s] = WsCloseState(s)]
               /\ closeCode' = [closeCode EXCEPT ![s] =
                                  WsCloseCode(s, PolicyViolation)]
               /\ UNCHANGED <<sent, saved, errorLog, pendingSaves>>
          [] result.ok /\ ~result.isNull /\ ~SessionInvalid(parsed)
             /\ parsed.type = "chat" ->
               /\ sent' = [t \in Sockets |->
                    IF t \in EchoSockets(s)
                    THEN WsSend(t, EchoFrame(parsed, connOf[s].sessionId, clock))
                    ELSE sent[t]]
               /\ saved' = Append(saved, <<connOf[s].deviceId, parsed.content>>)
               /\ \E outcome \in SaveOutcomes :
                    IF outcome = "throws"
                    THEN CatchError(s) /\ UNCHANGED pendingSaves
                    ELSE /\ pendingSaves' = pendingSaves + 1
                         /\ UNCHANGED <<errorLog, sockState, closeCode>>
          [] result.ok /\ ~result.isNull /\ ~SessionInvalid(parsed)
             /\ parsed.type = "subscribe" ->
               \* handleSubscription(ws, parsed)
               /\ sent' = [sent EXCEPT ![s] = WsSend(s, SubscribedFrame(parsed))]
               /\ UNCHANGED <<sockState, closeCode, saved, errorLog,
                              pendingSaves>>
          [] OTHER ->
               \* console.log('Unknown message type:', parsed.type)
               UNCHANGED <<sockState, closeCode, sent, saved, errorLog,
                           pendingSaves>>
  /\ UNCHANGED isoVars
  /\ UNCHANGED <<clock, connOf, historyFetch, activeIsolatedSessions, crashed>>

\* the promise of saveChatMessage fulfils: the result is discarded
SaveFulfilled ==
  /\ ~crashed
  /\ pendingSaves > 0
  /\ pendingSaves' = pendingSaves - 1
  /\ UNCHANGED isoVars
  /\ UNCHANGED <<clock, sockState, closeCode, connOf, sent, historyFetch,
                 activeIsolatedSessions, saved, received, lastMessage, errorLog,
                 crashed>>

\* the promise of saveChatMessage rejects: nothing handles it
SaveRejected(ends) ==
  /\ ~crashed
  /\ pendingSaves > 0
  /\ pendingSaves' = pendingSaves - 1
  /\ UnhandledRejection(ends)
  /\ UNCHANGED isoVars
  /\ UNCHANGED <<clock, closeCode, connOf, sent, historyFetch,
                 activeIsolatedSessions, saved, received, lastMessage,
                 errorLog>>

\* ws.on('close'): the peer closed, or the closing handshake finished
OnClose(s) ==
  /\ Budget
  /\ sockState[s] \in {"open", "closing"}
  /\ sockState' = [sockState EXCEPT ![s] = "closed"]
  /\ activeIsolatedSessions' =
       MapDelete(activeIsolatedSessions, connOf[s].sessionId)
  /\ UNCHANGED isoVars
  /\ UNCHANGED <<clock, closeCode, connOf, sent, historyFetch, saved, received,
                 lastMessage,
                 errorLog, pendingSaves, crashed>>

\* ------------------------------------------------- isolation manager
\* number of frames the connections conns have received
RECURSIVE FramesOn(_)
FramesOn(conns) ==
  IF conns = <<>> THEN 0
  ELSE Len(Head(conns).inbound) + FramesOn(Tail(conns))

\* number of frames the isolated servers and the workers have received
IsoFrames == FramesOn(deviceConns) + FramesOn(workerConns)

\* number of events of the in-process servers handled so far, frames apart
ServerSteps ==
  Len(instanceCounter)
  + Len(servers)
  + Cardinality({i \in 1..Len(servers) : ~servers[i].listening})
  + Len(deviceConns)
  + Cardinality({c \in 1..Len(deviceConns) : ~deviceConns[c].open})

\* number of events of the worker processes handled so far, frames apart
WorkerSteps ==
  Len(workers)
  + Cardinality({w \in 1..Len(workers) : workers[w].state # "forked"})
  + Cardinality({w \in 1..Len(workers) : workers[w].state \in {"exited", "reaped"}})
  + Cardinality({w \in 1..Len(workers) : workers[w].state = "reaped"})
  + Cardinality({w \in 1..Len(workers) : workers[w].killed})
  + Len(workerConns)

\* number of isolation-manager events handled so far
IsoEvents == ServerSteps + WorkerSteps + IsoFrames

\* The number of events a run is followed for depends on what takes part in
\* it: the sweep timer, in-process servers alone, workers alone, or servers
\* and workers together (then MaxIsoEvents events of either, frames apart).
Timed == clock > 0 \/ timerDue
Together == ServerSteps <= MaxIsoEvents /\ WorkerSteps <= MaxIsoEvents
ServerFrameBudget ==
  /\ ~crashed
  /\ IF Timed THEN IsoEvents < MaxTimedEvents
     ELSE IF workers = <<>> THEN IsoEvents < MaxServerEvents
     ELSE Together
ServerBudget ==
  /\ ServerFrameBudget
  /\ (~Timed /\ workers # <<>>) => ServerSteps < MaxIsoEvents
WorkerFrameBudget ==
  IF Timed THEN IsoEvents < MaxTimedEvents
  ELSE IF instanceCounter = <<>> THEN IsoEvents < MaxWorkerEvents
  ELSE Together
WorkerBudget ==
  /\ WorkerFrameBudget
  /\ (~Timed /\ instanceCounter # <<>>) => WorkerSteps < MaxIsoEvents

\* a port some listener of this host is bound to
PortInUse(port) ==
  \/ \E i \in 1..Len(servers) : servers[i].listening /\ servers[i].port = port
  \/ \E w \in 1..Len(workers) :
       workers[w].state = "running" /\ workers[w].port = port

\* activeConnections.set(deviceId, deviceConnection): a Map keeps the place
\* of a key that is already present
ConnectionsSet(conns, entry) ==
  IF \E i \in 1..Len(conns) : conns[i].deviceId = entry.deviceId
  THEN [i \in 1..Len(conns) |->
          IF conns[i].deviceId = entry.deviceId THEN entry ELSE conns[i]]
  ELSE Append(conns, entry)

\* activeConnections.delete(deviceId)
ConnectionsDelete(conns, deviceId) ==
  SelectSeq(conns, LAMBDA e : e.deviceId # deviceId)

\* device ids are opaque: the first device to be isolated is called devA
InUse(deviceId) ==
  \/ \E i \in 1..Len(servers) : servers[i].deviceId = deviceId
  \/ \E w \in 1..Len(workers) : workers[w].deviceId = deviceId
NextDevice(deviceId) == deviceId = "devA" \/ InUse("devA")

\* createDeviceIsolatedServer(basePort): let portCounter = basePort
CreateDeviceIsolatedServer(basePort) ==
  /\ ServerBudget
  /\ Len(instanceCounter) < NumInstances
  /\ instanceCounter' = Append(instanceCounter, basePort)
  /\ UNCHANGED workerConns
  /\ UNCHANGED <<clock, crashed, wsVars, portCounter, servers, deviceConns,
                 deviceServers, activeConnections, workers, activeProcesses,
                 timerDue>>

\* createForDevice(deviceId): port = portCounter++ of the instance, then
\* httpServer.listen(port); EADDRINUSE is an 'error' event nobody listens for
CreateForDevice(i, deviceId) ==
  /\ ServerBudget
  /\ i \in 1..Len(instanceCounter)
  /\ Len(servers) < MaxServers
  /\ NextDevice(deviceId)
  /\ LET port == instanceCounter[i] IN
     /\ instanceCounter' = [instanceCounter EXCEPT ![i] = port + 1]
     /\ servers' = Append(servers,
          [deviceId |-> deviceId, port |-> port, instance |-> i,
           listening |-> ~PortInUse(port)])
     /\ IF PortInUse(port)
        THEN ProcessDies
        ELSE UNCHANGED <<crashed, sockState>>
  /\ UNCHANGED workerConns
  /\ UNCHANGED <<clock, closeCode, connOf, sent, historyFetch,
                 activeIsolatedSessions, saved, received, lastMessage,
                 errorLog, pendingSaves, portCounter,
                 deviceConns, deviceServers, activeConnections, workers,
                 activeProcesses, timerDue>>

\* wss.on('connection') of the isolated server srv
DeviceConnect(srv) ==
  /\ ServerBudget
  /\ srv \in 1..Len(servers)
  /\ servers[srv].listening
  /\ Len(deviceConns) < MaxDeviceConns
  /\ LET deviceId == servers[srv].deviceId
         ws == Len(deviceConns) + 1
     IN /\ deviceConns' = Append(deviceConns,
             [server |-> srv, open |-> TRUE, inbound |-> <<>>, echoed |-> <<>>])
        /\ deviceServers' = MapSet(deviceServers, deviceId,
                                   [server |-> srv, ws |-> ws])
        /\ activeConnections' = ConnectionsSet(activeConnections,
             [deviceId |-> deviceId, port |-> servers[srv].port,
              connectedAt |-> clock, lastActive |-> clock])
  /\ UNCHANGED workerConns
  /\ UNCHANGED <<clock, crashed, wsVars, portCounter, instanceCounter, servers,
                 workers, activeProcesses, timerDue>>

\* ws.on('close') of a connection of an isolated server
DeviceClose(c) ==
  /\ ServerBudget
  /\ c \in 1..Len(deviceConns)
  /\ deviceConns[c].open
  /\ deviceConns' = [deviceConns EXCEPT ![c].open = FALSE]
  /\ activeConnections' =
       ConnectionsDelete(activeConnections,
                         servers[deviceConns[c].server].deviceId)
  /\ UNCHANGED workerConns
  /\ UNCHANGED <<clock, crashed, wsVars, portCounter, instanceCounter, servers,
                 deviceServers, workers, activeProcesses, timerDue>>

\* payloads are opaque: the first frame to arrive anywhere is called m1
Received(message) ==
  \/ \E c \in 1..Len(deviceConns), i \in 1..MaxIsoFrames :
       i <= Len(deviceConns[c].inbound) /\ deviceConns[c].inbound[i] = message
  \/ \E k \in 1..Len(workerConns), i \in 1..MaxIsoFrames :
       i <= Len(workerConns[k].inbound) /\ workerConns[k].inbound[i] = message
NextMessage(message) == message = "m1" \/ Received("m1")

\* ws.send(message) of an echo handler: written while the connection is open
SendOn(conn, message) ==
  IF conn.open THEN [conn EXCEPT !.echoed = Append(@, message)] ELSE conn

\* variant: the frame is sent to every client of the server (wss.clients)
DeviceEchoTargetsAll(c) ==
  {d \in 1..Len(deviceConns) : deviceConns[d].server = deviceConns[c].server}

\* the ws of the handler's closure
DeviceEchoTargets(c) == {c}

\* ws.on('message') of a connection of an isolated server: ws.send(message)
DeviceMessage(c, message) ==
  /\ ServerFrameBudget
  /\ c \in 1..Len(deviceConns)
  /\ deviceConns[c].open
  /\ IsoFrames < MaxIsoFrames
  /\ NextMessage(message)
  /\ deviceConns' = [d \in 1..Len(deviceConns) |->
       LET conn == IF d = c
                   THEN [deviceConns[d] EXCEPT !.inbound = Append(@, message)]
                   ELSE deviceConns[d]
       IN IF d \in DeviceEchoTargets(c) THEN SendOn(conn, message) ELSE conn]
  /\ UNCHANGED <<clock, crashed, wsVars, portCounter, instanceCounter, servers,
                 deviceServers, activeConnections, workers, activeProcesses,
                 workerConns, timerDue>>

\* the close() of the handle createForDevice returned
ServerHandleClose(srv) ==
  /\ ServerBudget
  /\ srv \in 1..Len(servers)
  /\ servers' = [servers EXCEPT ![srv].listening = FALSE]
  /\ deviceServers' = MapDelete(deviceServers, servers[srv].deviceId)
  /\ UNCHANGED workerConns
  /\ UNCHANGED <<clock, crashed, wsVars, portCounter, instanceCounter,
                 deviceConns, activeConnections, workers, activeProcesses,
                 timerDue>>

\* createIsolatedProcess(deviceId)
CreateIsolatedProcess(deviceId) ==
  /\ ~crashed
  /\ WorkerBudget
  /\ Len(workers) < MaxWorkers
  /\ NextDevice(deviceId)
  /\ LET port == portCounter
         worker == Len(workers) + 1
     IN /\ portCounter' = portCounter + 1
        /\ workers' = Append(workers,
             [deviceId |-> deviceId, port |-> port, state |-> "forked",
              exit |-> <<>>, signal |-> NoSignal, killed |-> FALSE])
        /\ activeProcesses' = MapSet(activeProcesses, deviceId,
             [process |-> worker, port |-> port, deviceId |-> deviceId])
  /\ UNCHANGED workerConns
  /\ UNCHANGED <<clock, crashed, wsVars, instanceCounter, servers, deviceConns,
                 deviceServers, activeConnections, timerDue>>

\* worker.js: server.listen(port); EADDRINUSE ends the worker with code 1
WorkerListen(w) ==
  /\ WorkerBudget
  /\ w \in 1..Len(workers)
  /\ workers[w].state = "forked"
  /\ workers' = [workers EXCEPT ![w] =
       IF PortInUse(workers[w].port)
       THEN [@ EXCEPT !.state = "exited", !.exit = <<1>>]
       ELSE [@ EXCEPT !.state = "running"]]
  /\ UNCHANGED workerConns
  /\ UNCHANGED <<clock, crashed, wsVars, portCounter, instanceCounter, servers,
                 deviceConns, deviceServers, activeConnections,
                 activeProcesses, timerDue>>

\* the connections of a worker end with its process
ClosedWith(w) ==
  [k \in 1..Len(workerConns) |->
     IF workerConns[k].worker = w
     THEN [workerConns[k] EXCEPT !.open = FALSE]
     ELSE workerConns[k]]

\* the worker process ends by itself
WorkerCrash(w) ==
  /\ WorkerBudget
  /\ w \in 1..Len(workers)
  /\ workers[w].state = "running"
  /\ workers' = [workers EXCEPT ![w] =
       [@ EXCEPT !.state = "exited", !.exit = <<1>>]]
  /\ workerConns' = ClosedWith(w)
  /\ UNCHANGED <<clock, crashed, wsVars, portCounter, instanceCounter, servers,
                 deviceConns, deviceServers, activeConnections,
                 activeProcesses, timerDue>>

\* worker.on('exit') in the parent
OnWorkerExit(w) ==
  /\ ~crashed
  /\ WorkerBudget
  /\ w \in 1..Len(workers)
  /\ workers[w].state = "exited"
  /\ workers' = [workers EXCEPT ![w].state = "reaped"]
  /\ activeProcesses' = MapDelete(activeProcesses, workers[w].deviceId)
  /\ UNCHANGED workerConns
  /\ UNCHANGED <<clock, crashed, wsVars, portCounter, instanceCounter, servers,
                 deviceConns, deviceServers, activeConnections, timerDue>>

\* disconnect: () => worker.kill(): SIGTERM is sent to a child that is alive
\* and the call returns
Disconnect(w) ==
  /\ ~crashed
  /\ WorkerBudget
  /\ w \in 1..Len(workers)
  /\ workers[w].state \in {"forked", "running"}
  /\ ~workers[w].killed
  /\ workers' = [workers EXCEPT ![w].killed = TRUE]
  /\ UNCHANGED <<clock, crashed, wsVars, portCounter, instanceCounter, servers,
                 deviceConns, deviceServers, activeConnections,
                 activeProcesses, workerConns, timerDue>>

\* SIGTERM reaches the worker. With process.on('SIGTERM') installed the
\* handler runs server.close(); process.exit(0); before that line of the
\* script has run the signal ends the process (no exit code).
WorkerSigterm(w, installed) ==
  /\ WorkerBudget
  /\ w \in 1..Len(workers)
  /\ workers[w].killed
  /\ workers[w].state \in {"forked", "running"}
  /\ workers[w].state = "running" => installed
  /\ workers' = [workers EXCEPT ![w] =
       IF installed
       THEN [@ EXCEPT !.state = "exited", !.exit = <<0>>]
       ELSE [@ EXCEPT !.state = "exited", !.signal = "SIGTERM"]]
  /\ workerConns' = ClosedWith(w)
  /\ UNCHANGED <<clock, crashed, wsVars, portCounter, instanceCounter, servers,
                 deviceConns, deviceServers, activeConnections,
                 activeProcesses, timerDue>>

\* worker.js: wss.on('connection')
WorkerConnect(w) ==
  /\ WorkerBudget
  /\ w \in 1..Len(workers)
  /\ workers[w].state = "running"
  /\ Len(workerConns) < MaxWorkerConns
  /\ workerConns' = Append(workerConns,
       [worker |-> w, open |-> TRUE, inbound |-> <<>>, echoed |-> <<>>])
  /\ UNCHANGED <<clock, crashed, wsVars, portCounter, instanceCounter, servers,
                 deviceConns, deviceServers, activeConnections, workers,
                 activeProcesses, timerDue>>

\* the ws of the handler's closure
WorkerEchoTargets(k) == {k}

\* worker.js: ws.on('message'): ws.send(message)
WorkerMessage(k, message) ==
  /\ WorkerFrameBudget
  /\ k \in 1..Len(workerConns)
  /\ workerConns[k].open
  /\ IsoFrames < MaxIsoFrames
  /\ NextMessage(message)
  /\ workerConns' = [j \in 1..Len(workerConns) |->
       LET conn == IF j = k
                   THEN [workerConns[j] EXCEPT !.inbound = Append(@, message)]
                   ELSE workerConns[j]
       IN IF j \in WorkerEchoTargets(k) THEN SendOn(conn, message) ELSE conn]
  /\ UNCHANGED <<clock, crashed, wsVars, portCounter, instanceCounter, servers,
                 deviceConns, deviceServers, activeConnections, workers,
                 activeProcesses, timerDue>>

\* -------------------------------------------------------------- idle reaper
\* now.getTime() - conn.lastActive.getTime() > 30 * 60 * 1000
IsIdle(conn, now) == now - conn.lastActive > IdleThreshold

\* the for loop of cleanupInactiveDevices over the Map, in insertion order.
\* deviceServers.get(deviceId)?.close() calls a property the entry does not
\* have: with an entry present it throws a TypeError and the loop is left.
RECURSIVE SweepLoop(_, _, _)
SweepLoop(todo, kept, now) ==
  IF todo = <<>> THEN [conns |-> kept, threw |-> FALSE]
  ELSE LET conn == Head(todo) IN
       IF IsIdle(conn, now)
       THEN IF conn.deviceId \in DOMAIN deviceServers
            THEN [conns |-> kept \o todo, threw |-> TRUE]
            ELSE SweepLoop(Tail(todo), kept, now)
       ELSE SweepLoop(Tail(todo), Append(kept, conn), now)

\* The interval of the timer elapses and its callback becomes due. The clock
\* is read for the timestamps of a DeviceConnection and by the sweep only, so
\* time is followed from the first DeviceConnection on.
TimePasses ==
  /\ ~crashed
  /\ ~timerDue
  /\ IsoEvents <= MaxTimedEvents
  /\ activeConnections # <<>>
  /\ clock + SweepInterval <= MaxIntervals * SweepInterval
  /\ clock' = clock + SweepInterval
  /\ timerDue' = TRUE
  /\ UNCHANGED workerConns
  /\ UNCHANGED <<crashed, wsVars, portCounter, instanceCounter, servers,
                 deviceConns, deviceServers, activeConnections, workers,
                 activeProcesses>>

\* setInterval(cleanupInactiveDevices, 5 * 60 * 1000): one run of the sweep
CleanupInactiveDevices ==
  /\ ~crashed
  /\ timerDue
  /\ timerDue' = FALSE
  /\ LET result == SweepLoop(activeConnections, <<>>, clock) IN
     /\ activeConnections' = result.conns
     /\ IF result.threw
        THEN ProcessDies
        ELSE UNCHANGED <<crashed, sockState>>
  /\ UNCHANGED workerConns
  /\ UNCHANGED <<clock, closeCode, connOf, sent, historyFetch,
                 activeIsolatedSessions, saved, received, lastMessage,
                 errorLog, pendingSaves, portCounter,
                 instanceCounter, servers, deviceConns, deviceServers,
                 workers, activeProcesses>>

Next ==
  \/ Tick
  \/ \E s \in Sockets, key \in Keys \cup {NoKey}, ip \in Ips : Upgrade(s, key, ip)
  \/ \E s \in Sockets : HistoryResolved(s)
  \/ \E s \in Sockets, ends \in BOOLEAN : HistoryRejected(s, ends)
  \/ \E s \in Sockets, raw \in RawFrames : OnMessage(s, raw)
  \/ SaveFulfilled
  \/ \E ends \in BOOLEAN : SaveRejected(ends)
  \/ \E s \in Sockets : OnClose(s)

Spec == Init /\ [][Next]_vars

NextIso ==
  \/ \E basePort \in BasePorts : CreateDeviceIsolatedServer(basePort)
  \/ \E i \in Instances, deviceId \in Devices : CreateForDevice(i, deviceId)
  \/ \E srv \in 1..MaxServers : DeviceConnect(srv)
  \/ \E c \in 1..MaxDeviceConns : DeviceClose(c)
  \/ \E c \in 1..MaxDeviceConns, message \in Messages : DeviceMessage(c, message)
  \/ \E srv \in 1..MaxServers : ServerHandleClose(srv)
  \/ \E deviceId \in Devices : CreateIsolatedProcess(deviceId)
  \/ \E w \in 1..MaxWorkers : WorkerListen(w)
  \/ \E w \in 1..MaxWorkers : WorkerCrash(w)
  \/ \E w \in 1..MaxWorkers : OnWorkerExit(w)
  \/ \E w \in 1..MaxWorkers : Disconnect(w)
  \/ \E w \in 1..MaxWorkers, installed \in BOOLEAN : WorkerSigterm(w, installed)
  \/ \E w \in 1..MaxWorkers : WorkerConnect(w)
  \/ \E k \in 1..MaxWorkerConns, message \in Messages : WorkerMessage(k, message)
  \/ TimePasses
  \/ CleanupInactiveDevices

SpecIso == Init /\ [][NextIso]_vars

\* ================================================================== claims
Connected(s) == connOf[s] # NoConn
InitFrameTypes == {"session_init", "connection", "history"}
\* the initialization frames of a socket, by type, in the order sent
InitTypesSent(s) ==
  LET init == SelectSeq(sent[s], LAMBDA f : f.type \in InitFrameTypes)
  IN [i \in 1..Len(init) |-> init[i].type]
ValidChat(raw) ==
  /\ raw.kind = "object"
  /\ raw.type = "chat"
  /\ raw.sessionId \in DOMAIN activeIsolatedSessions

C1_Frames ==
  \A s \in Sockets : Connected(s) =>
    /\ Len(sent[s]) >= 2
    /\ sent[s][1] = SessionInitFrame(connOf[s].sessionId, connOf[s].deviceId,
                                     connOf[s].ip)
    /\ sent[s][2] = ConnectionFrame(connOf[s].deviceId)
    /\ InitTypesSent(s) =
         IF historyFetch[s] = "sent"
         THEN <<"session_init", "connection", "history">>
         ELSE <<"session_init", "connection">>

C1_Registered ==
  \A s \in Sockets :
    (sockState[s] = "none" /\ sockState'[s] = "open") =>
      LET sessionId == connOf'[s].sessionId IN
      /\ DOMAIN activeIsolatedSessions' =
           DOMAIN activeIsolatedSessions \cup {sessionId}
      /\ activeIsolatedSessions'[sessionId] =
           [ws |-> s, ip |-> connOf'[s].ip, deviceId |-> connOf'[s].deviceId]
      /\ \A k \in DOMAIN activeIsolatedSessions \ {sessionId} :
           activeIsolatedSessions'[k] = activeIsolatedSessions[k]
      /\ historyFetch'[s] = "pending"

C2_EchoOnlyToOrigin ==
  [][\A s \in Sockets, raw \in RawFrames :
       (received' # received /\ ValidChat(raw) /\ OnMessage(s, raw))
         => \A t \in Sockets \ {s} : sent'[t] = sent[t]]_vars

C2_Witness ==
  \E s, t \in Sockets :
    /\ s # t
    /\ sockState[s] = "open" /\ sockState[t] = "open"
    /\ \E i \in 1..Len(sent[s]) : sent[s][i].type = "chat"
    /\ \A i \in 1..Len(sent[t]) : sent[t][i].type # "chat"
    /\ Len(saved) = 1

\* C3 (as stated): a successfully parsed frame whose sessionId is absent or
\* not a key of the registry leaves the socket closed with code 1008, and a
\* frame handled on a socket already closed that way sends nothing and makes
\* no persistence call.
C3_AsStated ==
  [][\A s \in Sockets, raw \in RawFrames :
       (received' # received /\ OnMessage(s, raw)) =>
         /\ (JSONParse(raw).ok
             /\ (raw.sessionId = NoSid
                 \/ raw.sessionId \notin DOMAIN activeIsolatedSessions))
              => /\ sockState'[s] = "closing"
                 /\ closeCode'[s] = PolicyViolation
         /\ closeCode[s] = PolicyViolation
              => sent' = sent /\ saved' = saved]_vars

\* C6 (as stated): a subscribe frame with channel c arriving on an open
\* socket, with or without a session id, is answered by exactly one
\* subscribed frame with channel c and the socket stays open.
C6_AsStated ==
  [][\A s \in Sockets, raw \in RawFrames :
       (received' # received /\ raw.kind = "object" /\ raw.type = "subscribe"
        /\ sockState[s] = "open" /\ OnMessage(s, raw))
         => /\ sent'[s] = Append(sent[s], [type |-> "subscribed",
                                           channel |-> raw.channel])
            /\ sockState'[s] = "open"]_vars

\* C6 (amended): a subscribe frame with channel c arriving on an open socket
\* is answered by exactly one subscribed frame with channel c, the socket
\* staying open, when it also carries a session id of the registry; with the
\* channel as its only field the socket is closed with code 1008 and no
\* subscribed frame is sent.
C6_Amended ==
  [][\A s \in Sockets, raw \in RawFrames :
       (received' # received /\ raw.kind = "object" /\ raw.type = "subscribe"
        /\ sockState[s] = "open" /\ OnMessage(s, raw))
         => IF raw.sessionId \in DOMAIN activeIsolatedSessions
            THEN /\ sent' = [sent EXCEPT ![s] =
                      Append(sent[s], [type |-> "subscribed",
                                       channel |-> raw.channel])]
                 /\ sockState' = sockState
                 /\ saved' = saved
            ELSE /\ sent' = sent
                 /\ sockState'[s] = "closing"
                 /\ closeCode'[s] = PolicyViolation]_vars

C6_Witness ==
  \E s \in Sockets :
    /\ sockState[s] = "open"
    /\ Len(sent[s]) = 3
    /\ sent[s][3] = [type |-> "subscribed", channel |-> "alerts"]

\* the last frame sent on s is the echo of the chat frame raw
EchoedLast(s, raw) ==
  /\ Len(sent'[s]) = Len(sent[s]) + 1
  /\ SubSeq(sent'[s], 1, Len(sent[s])) = sent[s]
  /\ LET echo == sent'[s][Len(sent'[s])] IN
     /\ echo.type = "chat"
     /\ echo.content = raw.content
     /\ echo.timestamp # <<>>
     /\ echo.timestamp = ToISOString(clock)

\* C7 (as stated): every chat frame with a registered session id is echoed
\* once with its content and a timestamp, and saveChatMessage is called once
\* with the device id of the arrival connection and that content.
C7_AsStated ==
  [][\A s \in Sockets, raw \in RawFrames :
       (received' # received /\ ValidChat(raw) /\ OnMessage(s, raw))
         => /\ EchoedLast(s, raw)
            /\ saved' = Append(saved, <<connOf[s].deviceId, raw.content>>)]_vars

\* C7 (amended): every chat frame with a registered session id that arrives
\* on an open socket is echoed once on it with its content and a non-empty
\* timestamp, and saveChatMessage is called once with the device id of the
\* arrival connection and that content.
C7_Amended ==
  [][\A s \in Sockets, raw \in RawFrames :
       (received' # received /\ ValidChat(raw) /\ sockState[s] = "open"
        /\ OnMessage(s, raw))
         => /\ EchoedLast(s, raw)
            /\ saved' = Append(saved, <<connOf[s].deviceId, raw.content>>)]_vars

C7_Witness ==
  \E s \in Sockets :
    /\ sockState[s] = "open"
    /\ Len(sent[s]) = 3
    /\ sent[s][3].type = "chat"
    /\ sent[s][3].content = "hello"
    /\ saved = <<<<connOf[s].deviceId, "hello">>>>

\* C8: a frame that is not JSON is dropped: no socket changes state, the
\* registry, the frames sent and the persistence calls are unchanged, and the
\* handler stays attached to the socket.
C8_MalformedDropped ==
  [][\A s \in Sockets :
       (received' # received /\ OnMessage(s, GarbageFrame))
         => /\ sockState' = sockState
            /\ closeCode' = closeCode
            /\ activeIsolatedSessions' = activeIsolatedSessions
            /\ sent' = sent
            /\ saved' = saved
            /\ pendingSaves' = pendingSaves
            /\ errorLog' = errorLog + 1]_vars

C8_Witness ==
  \E s \in Sockets :
    /\ errorLog = 1
    /\ received = 2
    /\ sockState[s] = "open"
    /\ connOf[s].sessionId \in DOMAIN activeIsolatedSessions
    /\ Len(sent[s]) = 3
    /\ sent[s][3].type = "chat"
    /\ pendingSaves = 1
    /\ \A t \in Sockets \ {s} : sockState[t] = "none"

\* C9 (as stated): a rejection of getChatHistory or saveChatMessage closes
\* no socket, removes no session and leaves the process serving; an open
\* socket leaves the open state only through a frame with a missing or unknown
\* session id, or through the peer closing it.
C9_AsStated ==
  [][/\ \A s \in Sockets :
          ((\E ends \in BOOLEAN : HistoryRejected(s, ends))
           \/ (\E ends \in BOOLEAN : SaveRejected(ends)))
            => /\ sockState' = sockState
               /\ activeIsolatedSessions' = activeIsolatedSessions
               /\ crashed' = crashed
     /\ \A s \in Sockets :
          (sockState[s] = "open" /\ sockState'[s] # "open")
            => \/ OnClose(s)
               \/ \E raw \in RawFrames :
                    /\ JSONParse(raw).ok
                    /\ SessionInvalid(raw)
                    /\ OnMessage(s, raw)]_vars

\* C10 (as stated): registering a session id that is already in the registry
\* fails and leaves the entry it finds unchanged.
C10_AsStated ==
  [][\A s \in Sockets, key \in Keys, ip \in Ips :
       (Upgrade(s, key, ip)
        /\ SessionIdOf(DeviceIdOf(key, ip, clock), clock)
             \in DOMAIN activeIsolatedSessions)
         => /\ activeIsolatedSessions' = activeIsolatedSessions
            /\ sockState'[s] # "open"]_vars

\* ------------------------------------------------- claims on port allocation
\* the ports handed out so far, by createForDevice and by createIsolatedProcess
AssignedPorts ==
  [i \in 1..Len(servers) |-> servers[i].port]
  \o [w \in 1..Len(workers) |-> workers[w].port]

\* C4 (as stated): any two isolation targets, whichever function and
\* instance made them, have different ports.
C4_AsStated ==
  \A i, j \in 1..Len(AssignedPorts) :
    i # j => AssignedPorts[i] # AssignedPorts[j]

\* C5 (as stated): after a run of the sweep every DeviceConnection that was
\* idle beyond the threshold is gone from activeConnections and every other
\* one is still there.
C5_AsStated ==
  [][CleanupInactiveDevices =>
       \A i \in 1..Len(activeConnections) :
         LET conn == activeConnections[i]
             present == \E j \in 1..Len(activeConnections') :
                          activeConnections'[j] = conn
         IN IF clock - conn.lastActive > IdleThreshold
            THEN ~\E j \in 1..Len(activeConnections') :
                    activeConnections'[j].deviceId = conn.deviceId
            ELSE present]_vars

\* ------------------------------------------------ claims on the registry
\* C11 (as stated): a session id of the registry maps to the same socket for
\* as long as it is registered, and once the close event of a socket has been
\* handled the session id of that socket is not in the registry.
C11_AsStated ==
  /\ [](\A s \in Sockets :
          (Connected(s) /\ sockState[s] = "closed" /\ ~crashed)
            => connOf[s].sessionId \notin DOMAIN activeIsolatedSessions)
  /\ [][\A sid \in DOMAIN activeIsolatedSessions
                     \cap DOMAIN activeIsolatedSessions' :
          activeIsolatedSessions'[sid].ws = activeIsolatedSessions[sid].ws]_vars

\* ------------------------------------------- claims on the isolation registries
\* C12 (as stated): activeConnections never holds two DeviceConnections with
\* the same device id, nor two with the same port.
C12_AsStated ==
  \A i, j \in 1..Len(activeConnections) :
    i # j => /\ activeConnections[i].deviceId # activeConnections[j].deviceId
             /\ activeConnections[i].port # activeConnections[j].port

\* C13 (as stated): while the parent process is up, every running worker has
\* the record of activeProcesses under its device id, and that record refers
\* to this worker and to its port.
C13_AsStated ==
  ~crashed =>
    \A w \in 1..Len(workers) :
      workers[w].state = "running" =>
        /\ workers[w].deviceId \in DOMAIN activeProcesses
        /\ activeProcesses[workers[w].deviceId].process = w
        /\ activeProcesses[workers[w].deviceId].port = workers[w].port

\* C14 (as stated): once disconnect() has returned for a worker, the worker
\* has exited and no record of activeProcesses refers to it.
C14_AsStated ==
  \A w \in 1..Len(workers) :
    workers[w].killed =>
      /\ workers[w].state \in {"exited", "reaped"}
      /\ \A d \in DOMAIN activeProcesses : activeProcesses[d].process # w

\* ------------------------------------------------------ claims on the echo
\* every connection of the list conns has been sent back exactly the frames it
\* received, in the order received
EchoedVerbatim(conns) ==
  \A c \in 1..Len(conns) : conns[c].echoed = conns[c].inbound

\* a frame received on connection c of the list conns is appended to what was
\* sent on c, and no other connection of the list is written to
EchoedToOrigin(conns, after, c, message) ==
  /\ Len(after) = Len(conns)
  /\ after[c].echoed = Append(conns[c].echoed, message)
  /\ \A d \in 1..Len(conns) : d # c => after[d] = conns[d]

\* C15: under both isolation strategies every frame is sent back unmodified
\* on the connection it arrived on and on no other connection of the same or
\* of the other strategy, so that a connection of an in-process server and a
\* connection of a worker that receive the same frames are sent the same
\* frames: what each connection has been sent equals what it received.
C15_SameEcho ==
  /\ [](/\ EchoedVerbatim(deviceConns)
        /\ EchoedVerbatim(workerConns)
        /\ \A c \in 1..Len(deviceConns), k \in 1..Len(workerConns) :
             deviceConns[c].inbound = workerConns[k].inbound
               => deviceConns[c].echoed = workerConns[k].echoed)
  /\ [][\A c \in 1..Len(deviceConns), message \in Messages :
          (deviceConns' # deviceConns /\ DeviceMessage(c, message))
            => /\ EchoedToOrigin(deviceConns, deviceConns', c, message)
               /\ workerConns' = workerConns]_vars
  /\ [][\A k \in 1..Len(workerConns), message \in Messages :
          (workerConns' # workerConns /\ WorkerMessage(k, message))
            => /\ EchoedToOrigin(workerConns, workerConns', k, message)
               /\ deviceConns' = deviceConns]_vars

C15_Witness ==
  /\ Len(deviceConns) = 1 /\ Len(workerConns) = 1
  /\ deviceConns[1].open /\ workerConns[1].open
  /\ servers[deviceConns[1].server].deviceId
       # workers[workerConns[1].worker].deviceId
  /\ deviceConns[1].inbound = <<"m1">> /\ deviceConns[1].echoed = <<"m1">>
  /\ workerConns[1].inbound = <<"m2">> /\ workerConns[1].echoed = <<"m2">>

\* ------------------------------------------------- claims on the idle sweep
\* C16 (as stated): a frame arriving on a connection of an isolated server
\* sets the lastActive of the device's DeviceConnection to the time of
\* arrival (so that a sweep within the threshold after it keeps the device).
C16_AsStated ==
  [][\A c \in 1..Len(deviceConns), message \in Messages :
       (deviceConns' # deviceConns /\ DeviceMessage(c, message))
         => \A i \in 1..Len(activeConnections') :
              activeConnections'[i].deviceId
                  = servers[deviceConns[c].server].deviceId
                => activeConnections'[i].lastActive = clock]_vars

\* C17 (as stated): a device whose DeviceConnection a run of the sweep
\* removes has, after that run, no entry in deviceServers and none in
\* activeProcesses, and the isolated server of that DeviceConnection is no
\* longer listening.
C17_AsStated ==
  [][CleanupInactiveDevices =>
       \A i \in 1..Len(activeConnections) :
         LET conn == activeConnections[i] IN
         (~\E j \in 1..Len(activeConnections') :
              activeConnections'[j].deviceId = conn.deviceId)
           => /\ conn.deviceId \notin DOMAIN deviceServers'
              /\ conn.deviceId \notin DOMAIN activeProcesses'
              /\ \A srv \in 1..Len(servers') :
                   (servers'[srv].deviceId = conn.deviceId
                    /\ servers'[srv].port = conn.port)
                     => ~servers'[srv].listening]_vars

\* ------------------------------------------------- claims on frame ordering
\* the type of the reply to an inbound frame of type chat or subscribe
ReplyType(raw) == IF raw.type = "chat" THEN "chat" ELSE "subscribed"

\* C18: the frames sent on a socket only grow at the end, and the reply to a
\* chat or subscribe frame is written while that frame is handled, as the last
\* frame sent on its socket: replies on one socket are in the order of the
\* frames they answer, whatever other sockets' frames, history fetches or
\* persistence writes happen in between.
C18_RepliesInOrder ==
  [][\A s \in Sockets :
       /\ Len(sent'[s]) >= Len(sent[s])
       /\ SubSeq(sent'[s], 1, Len(sent[s])) = sent[s]
       /\ \A raw \in RawFrames :
            (received' # received /\ raw.kind = "object"
             /\ raw.type \in {"chat", "subscribe"}
             /\ raw.sessionId \in DOMAIN activeIsolatedSessions
             /\ sockState[s] = "open" /\ OnMessage(s, raw))
              => /\ Len(sent'[s]) = Len(sent[s]) + 1
                 /\ sent'[s][Len(sent'[s])].type = ReplyType(raw)]_vars

C18_Witness ==
  \E s \in Sockets :
    /\ received = 2
    /\ Len(sent[s]) = 4
    /\ sent[s][3].type = "chat"
    /\ sent[s][4].type = "subscribed"

\* ------------------------------------------------- claims on worker exit
\* no record of activeProcesses refers to worker w
NoRecordOf(w, processes) ==
  \A d \in DOMAIN processes : processes[d].process # w

\* the exit of a worker is never followed by a new fork: a step that ends a
\* worker or handles its exit starts no process, and the record of a worker
\* whose exit has been handled is gone
ExitReclaims ==
  /\ [](\A w \in 1..Len(workers) :
          workers[w].state = "reaped" => NoRecordOf(w, activeProcesses))
  /\ [][\A w \in 1..Len(workers) :
          (workers[w].state # workers'[w].state
           /\ workers'[w].state \in {"exited", "reaped"})
            => /\ Len(workers') = Len(workers)
               /\ workers'[w].state = "reaped"
                    => NoRecordOf(w, activeProcesses')]_vars

\* C19 (as stated): the record of a worker whose exit has been handled is
\* gone and no process is started in its place; a worker that receives the
\* termination signal exits with code 0.
C19_AsStated ==
  /\ ExitReclaims
  /\ [][\A w \in 1..Len(workers), installed \in BOOLEAN :
          (workers' # workers /\ WorkerSigterm(w, installed))
            => /\ workers'[w].state = "exited"
               /\ workers'[w].exit = <<0>>]_vars

\* C19 (amended): the record of a worker whose exit has been handled is gone
\* and no process is started in its place; a worker that receives the
\* termination signal once its script has installed the SIGTERM handler stops
\* listening and exits with code 0, and one that receives it earlier is ended
\* by the signal, without an exit code.
C19_Amended ==
  /\ ExitReclaims
  /\ [][\A w \in 1..Len(workers), installed \in BOOLEAN :
          (workers' # workers /\ WorkerSigterm(w, installed))
            => /\ workers'[w].state = "exited"
               /\ \A k \in 1..Len(workerConns') :
                    workerConns'[k].worker = w => ~workerConns'[k].open
               /\ IF installed
                  THEN workers'[w].exit = <<0>>
                       /\ workers'[w].signal = NoSignal
                  ELSE workers'[w].exit = <<>>
                       /\ workers'[w].signal = "SIGTERM"
                       /\ workers[w].state = "forked"]_vars

C19_Witness ==
  \E w \in 1..Len(workers) :
    /\ workers[w].killed
    /\ workers[w].state = "reaped"
    /\ workers[w].exit = <<0>>
    /\ NoRecordOf(w, activeProcesses)
    /\ Len(workers) = 1

\* ------------------------------------------ claims on concurrent sockets
\* C20 (as stated): while the server process is up, every socket that
\* completed the handshake and whose close has not been handled has its
\* session id in the registry, mapped to itself.
C20_AsStated ==
  ~crashed =>
    \A s \in Sockets :
      sockState[s] \in {"open", "closing"} =>
        /\ connOf[s].sessionId \in DOMAIN activeIsolatedSessions
        /\ activeIsolatedSessions[connOf[s].sessionId].ws = s

\* --------------------------------------- claims on cross-session frames
\* A step that handles a frame leaves the frame and its socket in lastMessage.
\* the frame raw carries the session id of the live session of socket t, which
\* is another socket than s and has another session id than s
CarriesSessionOf(s, t, raw) ==
  /\ t # s
  /\ raw.kind = "object"
  /\ sockState[s] = "open"
  /\ sockState[t] \in {"open", "closing"}
  /\ raw.sessionId = connOf[t].sessionId
  /\ raw.sessionId # connOf[s].sessionId
  /\ raw.sessionId \in DOMAIN activeIsolatedSessions
  /\ activeIsolatedSessions[raw.sessionId].ws = t

\* a chat frame handled on s is echoed on s under the session id of s and
\* saved under the device id of s
AttributedTo(s, raw) ==
  raw.type = "chat" =>
    /\ EchoedLast(s, raw)
    /\ sent'[s][Len(sent'[s])].sessionId = connOf[s].sessionId
    /\ saved' = Append(saved, <<connOf[s].deviceId, raw.content>>)

\* the socket and the registry entry of t are as they were
Untouched(t) ==
  /\ sent'[t] = sent[t]
  /\ sockState'[t] = sockState[t]
  /\ closeCode'[t] = closeCode[t]
  /\ connOf[t].sessionId \in DOMAIN activeIsolatedSessions'
  /\ activeIsolatedSessions'[connOf[t].sessionId]
       = activeIsolatedSessions[connOf[t].sessionId]

\* C21 (as stated): a frame that arrives on socket A with the session id of
\* another live session B is attributed to A only: a chat frame is echoed on A
\* under A's session id and saved under A's device id, and the socket, the
\* registry entry and the stored history of B are as they were.
C21_AsStated ==
  [][received' # received =>
       LET s == lastMessage'[1]
           raw == lastMessage'[2]
       IN \A t \in Sockets :
            CarriesSessionOf(s, t, raw)
              => /\ AttributedTo(s, raw)
                 /\ Untouched(t)
                 /\ HistoryOf(saved', connOf[t].deviceId)
                      = HistoryOf(saved, connOf[t].deviceId)]_vars

\* C21 (amended): a frame that arrives on socket A with the session id of
\* another live session B is attributed to A only: a chat frame is echoed on A
\* under A's session id and saved under A's device id, the socket and the
\* registry entry of B are as they were, and so is the stored history of
\* every device id but A's; a session B that has A's device id shares A's
\* history and finds the content added to it.
C21_Amended ==
  [][received' # received =>
       LET s == lastMessage'[1]
           raw == lastMessage'[2]
       IN \A t \in Sockets :
            CarriesSessionOf(s, t, raw)
              => /\ AttributedTo(s, raw)
                 /\ Untouched(t)
                 /\ \A k \in Keys \ {connOf[s].deviceId} :
                      HistoryOf(saved', k) = HistoryOf(saved, k)
                 /\ (/\ raw.type = "chat"
                     /\ connOf[t].deviceId = connOf[s].deviceId)
                      => HistoryOf(saved', connOf[t].deviceId)
                           = Append(HistoryOf(saved, connOf[t].deviceId),
                                    raw.content)]_vars

\* a chat frame with the session id of t has just been handled on s, while
\* both sockets are open on different device ids
C21_Witness ==
  \E s, t \in Sockets :
    /\ s # t
    /\ sockState[s] = "open" /\ sockState[t] = "open"
    /\ connOf[t].deviceId # connOf[s].deviceId
    /\ lastMessage # <<>>
    /\ lastMessage[1] = s
    /\ lastMessage[2].type = "chat"
    /\ lastMessage[2].sessionId = connOf[t].sessionId
    /\ activeIsolatedSessions[connOf[t].sessionId].ws = t
    /\ Len(sent[s]) = 3
    /\ sent[s][3].type = "chat"
    /\ sent[s][3].sessionId = connOf[s].sessionId
    /\ saved = <<<<connOf[s].deviceId, lastMessage[2].content>>>>
    /\ Len(sent[t]) = 2

\* ------------------------------------------ claims on device connections
\* the device has a DeviceConnection in the list conns
HasDeviceConnection(conns, deviceId) ==
  \E i \in 1..Len(conns) : conns[i].deviceId = deviceId

\* a connection other than c is open on an isolated server of the device
OtherOpen(c, deviceId) ==
  \E k \in 1..Len(deviceConns) :
    /\ k # c
    /\ deviceConns[k].open
    /\ servers[deviceConns[k].server].deviceId = deviceId

\* C22 (as stated): when a connection of an isolated server closes while
\* another connection of the same device is open, the DeviceConnection of the
\* device stays in activeConnections; when the last open connection of the
\* device closes, neither activeConnections nor deviceServers keeps an entry
\* for the device.
C22_AsStated ==
  [][\A c \in 1..Len(deviceConns) :
       (deviceConns' # deviceConns /\ DeviceClose(c)) =>
         LET deviceId == servers[deviceConns[c].server].deviceId IN
         IF OtherOpen(c, deviceId)
         THEN HasDeviceConnection(activeConnections, deviceId)
                => HasDeviceConnection(activeConnections', deviceId)
         ELSE /\ ~HasDeviceConnection(activeConnections', deviceId)
              /\ deviceId \notin DOMAIN deviceServers']_vars

====
